---- MODULE Spec2Model ----
(***************************************************************************)
(* Model of static-http-file: the conditional-response negotiator          *)
(* (HttpFileResponse::respond_guard / respond / respond_borrowed) and the  *)
(* cache-busting URL rewriter (cachebust_uri, cachebust_suffix).           *)
(*                                                                         *)
(* Text is a sequence of one-character strings; Option<T> is a sequence    *)
(* of length 0 (None) or 1 (Some).  Indices returned by rfind and used by  *)
(* truncate and slicing are 0-based byte offsets, as in the Rust source.   *)
(***************************************************************************)
EXTENDS Integers, Sequences, FiniteSets, TLC

\* ------------------------------------------------------------------ bounds

\* longest request path handed to cachebust_suffix on its own
MaxPathLen == 6
\* longest query string handed to cachebust_uri on its own
MaxQueryLen == 6
\* longest request path of a whole request given to respond / respond_borrowed
MaxReqPathLen == 3

\* ------------------------------------------------------- Option and text

None == << >>
Some(x) == << x >>
IsSome(o) == Len(o) = 1
Unwrap(o) == o[1]

\* all texts over the alphabet A of length at most n
Strs(A, n) == UNION { [1..k -> A] : k \in 0..n }

Q == "\""

\* str::starts_with
StartsWith(s, t) == Len(t) <= Len(s) /\ SubSeq(s, 1, Len(t)) = t

\* str::ends_with
EndsWith(s, t) == Len(t) <= Len(s) /\ SubSeq(s, Len(s) - Len(t) + 1, Len(s)) = t

\* s[i..] with a 0-based byte offset
SliceFrom(s, i) == SubSeq(s, i + 1, Len(s))

\* s[..i] with a 0-based byte offset (also String::truncate(i))
SliceTo(s, i) == SubSeq(s, 1, i)

\* str::find(c): 0-based offset of the first c, or None
Find(s, c) ==
    IF \E i \in 1..Len(s) : s[i] = c
    THEN Some((CHOOSE i \in 1..Len(s) : s[i] = c /\ \A j \in 1..(i-1) : s[j] # c) - 1)
    ELSE None

\* str::rfind(c): 0-based offset of the last c, or None
RFind(s, c) ==
    IF \E i \in 1..Len(s) : s[i] = c
    THEN Some((CHOOSE i \in 1..Len(s) : s[i] = c /\ \A j \in (i+1)..Len(s) : s[j] # c) - 1)
    ELSE None

\* Option::unwrap_or
UnwrapOr(o, d) == IF IsSome(o) THEN Unwrap(o) ELSE d

\* str::split(c): the fields between occurrences of c, at least one field
RECURSIVE Split(_, _)
Split(s, c) ==
    LET p == Find(s, c)
    IN  IF IsSome(p)
        THEN << SliceTo(s, Unwrap(p)) >> \o Split(SliceFrom(s, Unwrap(p) + 1), c)
        ELSE << s >>

\* str::splitn(2, c): the text before the first c, and the text after it if any
SplitN2(s, c) ==
    LET p == Find(s, c)
    IN  IF IsSome(p)
        THEN [first |-> SliceTo(s, Unwrap(p)), second |-> Some(SliceFrom(s, Unwrap(p) + 1))]
        ELSE [first |-> s, second |-> None]

\* char::is_whitespace for the characters of the model
IsWhitespace(c) == c \in {" ", "\t"}

\* str::trim
RECURSIVE Trim(_)
Trim(s) ==
    IF s = << >> THEN s
    ELSE IF IsWhitespace(s[1]) THEN Trim(Tail(s))
    ELSE IF IsWhitespace(s[Len(s)]) THEN Trim(SubSeq(s, 1, Len(s) - 1))
    ELSE s

\* concatenation of a sequence of texts, each preceded by the text sep
RECURSIVE ConcatWith(_, _)
ConcatWith(fields, sep) ==
    IF fields = << >> THEN << >>
    ELSE sep \o Head(fields) \o ConcatWith(Tail(fields), sep)

\* ---------------------------------------------------------------- HttpFile

\* the three variants of CacheBusting
CacheBustingNone == [kind |-> "None", key |-> << >>, sep |-> None]
CacheBustingQuery(query_key) == [kind |-> "Query", key |-> query_key, sep |-> None]
CacheBustingSuffix(left_sep) == [kind |-> "Suffix", key |-> << >>, sep |-> left_sep]

\* an etag_str that also strips the two quotes of an etag of length 2
etag_str_StripsEmptyQuotes(e) ==
    IF Len(e) >= 2 /\ StartsWith(e, << Q >>) /\ EndsWith(e, << Q >>)
    THEN SubSeq(e, 2, Len(e) - 1)
    ELSE e

\* HttpFile::etag_str: the etag without its quotes
etag_str(e) ==
    IF Len(e) > 2 /\ StartsWith(e, << Q >>) /\ EndsWith(e, << Q >>)
    THEN SubSeq(e, 2, Len(e) - 1)
    ELSE e

\* file_ext: the loop over i, from the end of the path towards its start
RECURSIVE file_ext_loop(_, _)
file_ext_loop(pathb, i) ==
    IF i = 0 THEN None
    ELSE LET b == pathb[i]
         IN  IF b = "." THEN Some(SliceFrom(pathb, i))
             ELSE IF b # "/" /\ b # "\\" THEN file_ext_loop(pathb, i - 1)
             ELSE None

\* a file_ext that takes what stands after the first '.' of the final segment
file_ext_FirstDot(path) ==
    LET start == CHOOSE k \in 0..Len(path) :
                    /\ k > 0 => path[k] \in {"/", "\\"}
                    /\ \A j \in (k + 1)..Len(path) : path[j] \notin {"/", "\\"}
        dots == { i \in (start + 1)..Len(path) : path[i] = "." }
    IN  IF dots = {} THEN None
        ELSE Some(SliceFrom(path, CHOOSE i \in dots : \A j \in dots : i <= j))

\* file_ext: the extension of a path, if any
file_ext(path) == file_ext_loop(path, Len(path))

\* ------------------------------------------------------------- responses

ALLOW == "GET, HEAD, OPTIONS"
IMMUTABLE == "public, max-age=31536000, immutable"
REVALIDATE == "public, max-age=0, must-revalidate"

OK == 200
NO_CONTENT == 204
NOT_MODIFIED == 304
TEMPORARY_REDIRECT == 307
METHOD_NOT_ALLOWED == 405

NoHeaders ==
    [allow |-> None, location |-> None, content_type |-> None,
     etag |-> None, cache_control |-> None]

\* http::Response::builder(): status 200, no header, no body yet
Builder == [status |-> OK, headers |-> NoHeaders, body |-> << >>]

\* ByteData::from_static(&[])
EmptyBody == << >>

\* Result<Builder, Result<Response, Error>> of respond_guard
Ok(builder) == [ok |-> TRUE, v |-> builder]
Err(res) == [ok |-> FALSE, v |-> res]

\* the 307 answer both rewriters build
Redirect(new_path) ==
    [status |-> TEMPORARY_REDIRECT,
     headers |-> [NoHeaders EXCEPT !.location = Some(new_path)],
     body |-> EmptyBody]

\* the 405 answer of the method gate
MethodNotAllowed ==
    [status |-> METHOD_NOT_ALLOWED,
     headers |-> [NoHeaders EXCEPT !.allow = Some(ALLOW)],
     body |-> EmptyBody]

\* a method gate that lets POST through
MethodAllowed_LetsPostThrough(method) == method \in {"HEAD", "OPTIONS", "GET", "POST"}

\* the method gate of respond_guard
MethodAllowed(method) == method \in {"HEAD", "OPTIONS", "GET"}

\* header assembly that marks every file immutable
response_headers_AlwaysImmutable(file, response) ==
    [response EXCEPT
        !.headers.content_type = Some(file.content_type),
        !.headers.etag = Some(file.etag),
        !.headers.cache_control = Some(IMMUTABLE)]

\* HttpFileResponse::response_headers
response_headers(file, response) ==
    [response EXCEPT
        !.headers.content_type = Some(file.content_type),
        !.headers.etag = Some(file.etag),
        !.headers.cache_control =
            Some(IF file.cache_busting.kind # "None" THEN IMMUTABLE ELSE REVALIDATE)]

\* ------------------------------------------------------ query-mode rewriter

\* a search that returns the value of the last field `query_key=...`
RECURSIVE find_map_query_val_LastField(_, _)
find_map_query_val_LastField(pairs, query_key) ==
    IF pairs = << >> THEN None
    ELSE LET pair == SplitN2(pairs[Len(pairs)], "=")
         IN  IF pair.first = query_key /\ IsSome(pair.second)
             THEN pair.second
             ELSE find_map_query_val_LastField(SubSeq(pairs, 1, Len(pairs) - 1), query_key)

\* the find_map of cachebust_uri: the value of the first field `query_key=...`
RECURSIVE find_map_query_val(_, _)
find_map_query_val(pairs, query_key) ==
    IF pairs = << >> THEN None
    ELSE LET pair == SplitN2(Head(pairs), "=")
         IN  IF pair.first = query_key /\ IsSome(pair.second)
             THEN pair.second
             ELSE find_map_query_val(Tail(pairs), query_key)

\* the fields of the old query that are pushed again after the new parameter
KeepField(x, query_key) ==
    \/ ~StartsWith(x, query_key)
    \/ (Len(x) > Len(query_key) /\ ~StartsWith(SliceFrom(x, Len(query_key)), << "=" >>))

\* HttpFileResponse::cachebust_uri
cachebust_uri(file, old_uri, query_key) ==
    LET e == etag_str(file.etag)
        head_ == old_uri.path \o << "?" >> \o query_key \o << "=" >> \o e
    IN  IF IsSome(old_uri.query)
        THEN LET query == Unwrap(old_uri.query)
                 query_val == find_map_query_val(Split(query, "&"), query_key)
             IN  IF query_val # Some(e)
                 THEN Some(Redirect(
                        head_ \o
                        (IF IsSome(query_val)
                         THEN ConcatWith(
                                SelectSeq(Split(query, "&"), LAMBDA x : KeepField(x, query_key)),
                                << "&" >>)
                         ELSE IF query # << >> THEN << "&" >> \o query
                         ELSE << >>)))
                 ELSE None
        ELSE Some(Redirect(head_))

\* ----------------------------------------------------- suffix-mode rewriter

\* an acceptance test that forgets the separator
HasEtagSuffix_IgnoresSeparator(s, e, left_sep) ==
    /\ EndsWith(s, e)
    /\ Len(s) > Len(e)

\* the acceptance test cachebust_suffix applies to the path and to the basename
HasEtagSuffix(s, e, left_sep) ==
    /\ EndsWith(s, e)
    /\ Len(s) > Len(e)
    /\ (IsSome(left_sep) => s[Len(s) - Len(e)] = Unwrap(left_sep))

\* a strip that leaves the separator out of the new path
StripTail_WithoutSeparator(s, left_sep) ==
    IF IsSome(left_sep)
    THEN LET p == RFind(s, Unwrap(left_sep))
         IN  IF IsSome(p) /\ UnwrapOr(RFind(s, "/"), 0) < Unwrap(p)
             THEN SliceTo(s, Unwrap(p))
             ELSE s
    ELSE s

\* a strip that cuts at the right-most separator wherever it lies
StripTail_AcrossDirectories(s, left_sep) ==
    IF IsSome(left_sep)
    THEN LET p == RFind(s, Unwrap(left_sep))
         IN  (IF IsSome(p) THEN SliceTo(s, Unwrap(p)) ELSE s) \o << Unwrap(left_sep) >>
    ELSE s

\* the start of the new path: s without a stale `left_sep...` tail, then left_sep
StripTail(s, left_sep) ==
    IF IsSome(left_sep)
    THEN LET p == RFind(s, Unwrap(left_sep))
         IN  (IF IsSome(p) /\ UnwrapOr(RFind(s, "/"), 0) < Unwrap(p)
              THEN SliceTo(s, Unwrap(p))
              ELSE s) \o << Unwrap(left_sep) >>
    ELSE s

\* a cachebust_suffix that carries the query of the request over to the new path
cachebust_suffix_KeepsQuery(file, old_uri, left_sep) ==
    LET old_path == old_uri.path
        e == etag_str(file.etag)
        ext == file_ext(old_path)
        tail_ == IF IsSome(old_uri.query) THEN << "?" >> \o Unwrap(old_uri.query) ELSE << >>
    IN  IF HasEtagSuffix(old_path, e, left_sep) THEN None
        ELSE IF IsSome(ext)
        THEN LET basename == SliceTo(old_path, Len(old_path) - Len(Unwrap(ext)) - 1)
             IN  IF HasEtagSuffix(basename, e, left_sep) THEN None
                 ELSE Some(Redirect(
                        StripTail(basename, left_sep) \o e \o << "." >> \o Unwrap(ext)
                            \o tail_))
        ELSE Some(Redirect(StripTail(old_path, left_sep) \o e \o tail_))

\* HttpFileResponse::cachebust_suffix
cachebust_suffix(file, old_uri, left_sep) ==
    LET old_path == old_uri.path
        e == etag_str(file.etag)
        ext == file_ext(old_path)
    IN  IF HasEtagSuffix(old_path, e, left_sep) THEN None
        ELSE IF IsSome(ext)
        THEN LET basename == SliceTo(old_path, Len(old_path) - Len(Unwrap(ext)) - 1)
             IN  IF HasEtagSuffix(basename, e, left_sep) THEN None
                 ELSE Some(Redirect(
                        StripTail(basename, left_sep) \o e \o << "." >> \o Unwrap(ext)))
        ELSE Some(Redirect(StripTail(old_path, left_sep) \o e))

\* ------------------------------------------------------------- negotiator

\* visible ASCII (or tab): the bytes HeaderValue::to_str accepts
IsVisibleAscii(c) == c # "\\xff"

\* headers().get(IF_NONE_MATCH).and_then(|value| value.to_str().ok())
HeaderToStr(header) ==
    IF IsSome(header) /\ \A i \in 1..Len(Unwrap(header)) : IsVisibleAscii(Unwrap(header)[i])
    THEN header
    ELSE None

\* a conditional match that compares the tokens without trimming them
IfNoneMatchMatches_Untrimmed(file, request) ==
    LET etag == HeaderToStr(request.if_none_match)
    IN  /\ IsSome(etag)
        /\ \E esplit \in { Split(Unwrap(etag), ",")[i] :
                             i \in 1..Len(Split(Unwrap(etag), ",")) } :
              esplit = << "*" >> \/ esplit = file.etag

\* the conditional match of respond_guard
IfNoneMatchMatches(file, request) ==
    LET etag == HeaderToStr(request.if_none_match)
    IN  /\ IsSome(etag)
        /\ \E esplit \in { Trim(Split(Unwrap(etag), ",")[i]) :
                             i \in 1..Len(Split(Unwrap(etag), ",")) } :
              esplit = << "*" >> \/ esplit = file.etag

\* a match on cache_busting() whose None arm falls into the Suffix arm
BustingCheck_NoneFallsThrough(file, uri) ==
    CASE file.cache_busting.kind = "Query" ->
            cachebust_uri(file, uri, file.cache_busting.key)
      [] OTHER -> cachebust_suffix(file, uri, file.cache_busting.sep)

\* the match on cache_busting() in respond_guard
BustingCheck(file, uri) ==
    CASE file.cache_busting.kind = "None" -> None
      [] file.cache_busting.kind = "Query" ->
            cachebust_uri(file, uri, file.cache_busting.key)
      [] file.cache_busting.kind = "Suffix" ->
            cachebust_suffix(file, uri, file.cache_busting.sep)

\* a guard that runs the conditional match before the busting check
respond_guard_ConditionalFirst(file, request) ==
    LET method == request.method
    IN  IF ~MethodAllowed(method) THEN Err(MethodNotAllowed)
        ELSE LET res == BustingCheck(file, request.uri)
                 response == response_headers(file, Builder)
             IN  IF method # "OPTIONS" /\ IfNoneMatchMatches(file, request)
                 THEN Err([response EXCEPT !.status = NOT_MODIFIED])
                 ELSE IF IsSome(res) THEN Err(Unwrap(res))
                 ELSE IF method = "OPTIONS"
                 THEN Err([response EXCEPT !.status = NO_CONTENT,
                                           !.headers.allow = Some(ALLOW)])
                 ELSE IF method = "HEAD" THEN Err(response)
                 ELSE Ok(response)

\* a guard that runs the conditional match before the OPTIONS answer
respond_guard_OptionsAfterConditional(file, request) ==
    LET method == request.method
    IN  IF ~MethodAllowed(method) THEN Err(MethodNotAllowed)
        ELSE LET res == BustingCheck(file, request.uri)
                 response == response_headers(file, Builder)
             IN  IF IsSome(res) THEN Err(Unwrap(res))
                 ELSE IF IfNoneMatchMatches(file, request)
                 THEN Err([response EXCEPT !.status = NOT_MODIFIED])
                 ELSE IF method = "OPTIONS"
                 THEN Err([response EXCEPT !.status = NO_CONTENT,
                                           !.headers.allow = Some(ALLOW)])
                 ELSE IF method = "HEAD" THEN Err(response)
                 ELSE Ok(response)

\* HttpFileResponse::respond_guard
respond_guard(file, request) ==
    LET method == request.method
    IN  IF ~MethodAllowed(method) THEN Err(MethodNotAllowed)
        ELSE LET res == BustingCheck(file, request.uri)
                 response == response_headers(file, Builder)
             IN  IF IsSome(res) THEN Err(Unwrap(res))
                 ELSE IF method = "OPTIONS"
                 THEN Err([response EXCEPT !.status = NO_CONTENT,
                                           !.headers.allow = Some(ALLOW)])
                 ELSE IF IfNoneMatchMatches(file, request)
                 THEN Err([response EXCEPT !.status = NOT_MODIFIED])
                 ELSE IF method = "HEAD" THEN Err(response)
                 ELSE Ok(response)

\* HttpFileResponse::respond: the guard's answer, or the builder with into_data()
respond(file, request) ==
    LET g == respond_guard(file, request)
    IN  IF g.ok THEN [g.v EXCEPT !.body = file.data] ELSE g.v

\* a respond_borrowed that never attaches the content
respond_borrowed_WithoutData(file, request) ==
    LET g == respond_guard(file, request)
    IN  g.v

\* HttpFileResponse::respond_borrowed: the same with clone_data()
respond_borrowed(file, request) ==
    LET g == respond_guard(file, request)
    IN  IF g.ok THEN [g.v EXCEPT !.body = file.data] ELSE g.v

\* ------------------------------------------------- QueryCacheBustedHttpFile

\* the outcome of a call that panics instead of returning a text
Panicked == << "panic!" >>

\* ConstHttpFile::const_etag_str: an etag that is empty or does not start with '"' is
\* returned as it is; else the slice 1..len-1, or a panic when that is no range
const_etag_str(file) ==
    IF Len(file.etag) = 0 \/ ~StartsWith(file.etag, << Q >>)
    THEN file.etag
    ELSE IF 1 <= Len(file.etag) - 1
         THEN SubSeq(file.etag, 2, Len(file.etag) - 1)
         ELSE Panicked

\* SharedHttpFile::const_etag_str: the same test and the same slice
SharedHttpFile_const_etag_str(file) ==
    IF Len(file.etag) = 0 \/ ~StartsWith(file.etag, << Q >>)
    THEN file.etag
    ELSE IF 1 <= Len(file.etag) - 1
         THEN SubSeq(file.etag, 2, Len(file.etag) - 1)
         ELSE Panicked

\* QueryCacheBustedHttpFile::new_const: the url is stored as given
new_const(url, query_var, inner) ==
    [url |-> url, cbust |-> CacheBustingQuery(query_var), inner |-> inner]

\* QueryCacheBustedHttpFile::new: format!("{}?{}={}", file_url, query_var, inner.etag())
new(file_url, query_var, inner) ==
    [url |-> file_url \o << "?" >> \o query_var \o << "=" >> \o inner.etag,
     cbust |-> CacheBustingQuery(query_var),
     inner |-> inner]

\* static_http_file_querycache!(queryvar, file): the url is
\* concat_str_static!(file, "?", queryvar, "=", const_etag_str()); the arm without a
\* query variable is the one with queryvar "-"
static_http_file_querycache(queryvar, file, file_const) ==
    new_const(file \o << "?" >> \o queryvar \o << "=" >> \o const_etag_str(file_const),
              queryvar, file_const)

\* QueryCacheBustedHttpFile::url
url(wrapper) == wrapper.url

\* impl HttpFile for QueryCacheBustedHttpFile: cache_busting() is the wrapper's cbust
cache_busting(wrapper) == wrapper.cbust

\* wrap_resp!: respond of the wrapper is self.inner.respond(request)
wrap_resp_respond(wrapper, request) == respond(wrapper.inner, request)

\* ------------------------------------------------------------ the inputs

\* the file served: a quoted etag whose fingerprint is `a`
ETAG == << Q, "a", Q >>
MIME == "text/plain"
DATA == << 104, 105 >>

PathChars == {"/", ".", "-", "f", "a"}
QueryChars == {"v", "=", "&", "a"}
QUERY_KEY == << "v" >>

Modes ==
    { CacheBustingNone, CacheBustingQuery(QUERY_KEY), CacheBustingSuffix(None),
      CacheBustingSuffix(Some(".")), CacheBustingSuffix(Some("-")) }

Files ==
    { [etag |-> ETAG, content_type |-> MIME, data |-> DATA, cache_busting |-> cb] :
        cb \in Modes }

\* Uri::path() is never empty and starts with '/'
PathsUpTo(n) == { << "/" >> \o s : s \in Strs(PathChars, n - 1) }

\* Uri::query(): None without a '?', else the text after it (possibly empty)
Queries == { None } \cup { Some(q) : q \in Strs(QueryChars, MaxQueryLen) }

\* the URIs given to cachebust_suffix on its own
SuffixCallUris == { [path |-> p, query |-> None] : p \in PathsUpTo(MaxPathLen) }

\* the URIs given to cachebust_uri on its own
QueryCallUris ==
    { [path |-> p, query |-> q] : p \in { << "/", "f" >>, << "/", "f", ".", "a" >> },
                                  q \in Queries }

\* the URIs of whole requests
ReqUris ==
    { [path |-> p, query |-> q] :
        p \in PathsUpTo(MaxReqPathLen), q \in { None, Some(<< "v", "=", "a" >>) } }
    \cup
    { [path |-> << "/", "f" >>, query |-> Some(q)] :
        q \in { << >>, << "v" >>, << "v", "=", "f" >>, << "a", "&", "v", "=", "a" >>,
                << "v", "=", "f", "&", "a" >> } }

\* the query variables a wrapper is built with; "-" is the macro's default
QueryVars == { QUERY_KEY, << "-" >> }

Methods == {"GET", "HEAD", "OPTIONS", "POST"}

\* If-None-Match header values: absent, the etag, `*`, the bare fingerprint, a weak
\* etag, a list with blanks around its tokens, another etag, and a value holding a
\* byte that is not visible ASCII
InmHeaders ==
    { None,
      Some(ETAG),
      Some(<< "*" >>),
      Some(<< "a" >>),
      Some(<< "W", "/" >> \o ETAG),
      Some(<< Q, "f", Q, " ", ",", " " >> \o ETAG \o << " " >>),
      Some(<< Q, "f", Q >>),
      Some(ETAG \o << ",", "\\xff" >>) }

Requests == [method : Methods, uri : ReqUris, if_none_match : InmHeaders]

\* ------------------------------------------------------- the state machine

VARIABLES
    self,   \* the file entity the calls are made on
    op,     \* the operation that was called, "idle" between two calls
    req,    \* its request (a whole request, or only a URI)
    ret     \* what it returned

vars == << self, op, req, ret >>

Init ==
    /\ self \in Files
    /\ op = "idle"
    /\ req = None
    /\ ret = None

\* self.respond(request)
Respond ==
    /\ op = "idle"
    /\ \E request \in Requests :
        /\ op' = "respond"
        /\ req' = request
        /\ ret' = respond(self, request)
        /\ UNCHANGED self

\* self.respond_borrowed(request)
RespondBorrowed ==
    /\ op = "idle"
    /\ \E request \in Requests :
        /\ op' = "respond_borrowed"
        /\ req' = request
        /\ ret' = respond_borrowed(self, request)
        /\ UNCHANGED self

\* self.cachebust_uri(old_uri, query_key), with the key of the file's own mode
CachebustUri ==
    /\ op = "idle"
    /\ self.cache_busting.kind = "Query"
    /\ \E old_uri \in QueryCallUris :
        /\ op' = "cachebust_uri"
        /\ req' = [uri |-> old_uri]
        /\ ret' = cachebust_uri(self, old_uri, self.cache_busting.key)
        /\ UNCHANGED self

\* self.cachebust_suffix(old_uri, left_sep), with the separator of the file's own mode
CachebustSuffix ==
    /\ op = "idle"
    /\ self.cache_busting.kind = "Suffix"
    /\ \E old_uri \in SuffixCallUris :
        /\ op' = "cachebust_suffix"
        /\ req' = [uri |-> old_uri]
        /\ ret' = cachebust_suffix(self, old_uri, self.cache_busting.sep)
        /\ UNCHANGED self

\* QueryCacheBustedHttpFile::new(file_url, query_var, self)
New ==
    /\ op = "idle"
    /\ \E file_url \in PathsUpTo(MaxReqPathLen), query_var \in QueryVars :
        /\ op' = "new"
        /\ req' = [file_url |-> file_url, query_var |-> query_var]
        /\ ret' = new(file_url, query_var, self)
        /\ UNCHANGED self

\* static_http_file_querycache!(query_var, file_url) around the constant file self
StaticHttpFileQuerycache ==
    /\ op = "idle"
    /\ self.cache_busting.kind = "None"
    /\ \E file_url \in PathsUpTo(MaxReqPathLen), query_var \in QueryVars :
        /\ op' = "static_http_file_querycache"
        /\ req' = [file_url |-> file_url, query_var |-> query_var]
        /\ ret' = static_http_file_querycache(query_var, file_url, self)
        /\ UNCHANGED self

\* QueryCacheBustedHttpFile::new("/f", query_var, self).respond(request)
WrapRespRespond ==
    /\ op = "idle"
    /\ \E query_var \in QueryVars, request \in Requests :
        /\ op' = "wrap_resp_respond"
        /\ req' = [wrapper |-> new(<< "/", "f" >>, query_var, self), request |-> request]
        /\ ret' = wrap_resp_respond(new(<< "/", "f" >>, query_var, self), request)
        /\ UNCHANGED self

\* the caller takes the answer; the file entity is ready for the next call
Return ==
    /\ op # "idle"
    /\ op' = "idle"
    /\ req' = None
    /\ ret' = None
    /\ UNCHANGED self

Next ==
    \/ Respond \/ RespondBorrowed \/ CachebustUri \/ CachebustSuffix
    \/ New \/ StaticHttpFileQuerycache \/ WrapRespRespond
    \/ Return

Spec == Init /\ [][Next]_vars

\* ---------------------------------------------------------- the claims

\* a whole request was answered
Answered == op \in {"respond", "respond_borrowed"}

\* the unquoted fingerprint of the file served
Fingerprint == SubSeq(self.etag, 2, Len(self.etag) - 1)

\* the text t occurs somewhere in the text s
Contains(s, t) == \E i \in 0..(Len(s) - Len(t)) : SubSeq(s, i + 1, i + Len(t)) = t

\* the If-None-Match values of the model that hold, between commas and blanks, the
\* token `*` or the full quoted etag, and are readable as text
MatchingInm ==
    { Some(ETAG), Some(<< "*" >>), Some(<< Q, "f", Q, " ", ",", " " >> \o ETAG \o << " " >>) }

\* Content-Type, ETag and Cache-Control as the file prescribes them
HeadersOf(response) ==
    /\ response.headers.content_type = Some(self.content_type)
    /\ response.headers.etag = Some(self.etag)
    /\ response.headers.cache_control =
         Some(IF self.cache_busting.kind = "None" THEN REVALIDATE ELSE IMMUTABLE)

\* C1: a request whose method is not GET, HEAD or OPTIONS is answered 405 with
\* `Allow: GET, HEAD, OPTIONS` and an empty body, whatever its URL, the busting mode
\* and its If-None-Match are.
C1_MethodGate ==
    (Answered /\ req.method \notin {"GET", "HEAD", "OPTIONS"}) =>
        /\ ret.status = 405
        /\ ret.headers.allow = Some("GET, HEAD, OPTIONS")
        /\ ret.body = << >>

\* a POST to a non-canonical URL of a query-busted file, with a matching validator
C1_Witness ==
    /\ Answered
    /\ req.method = "POST"
    /\ self.cache_busting.kind = "Query"
    /\ req.uri.query = None
    /\ req.if_none_match = Some(self.etag)
    /\ ret.status = 405

\* C2: in Query or Suffix mode a GET, HEAD or OPTIONS request whose URL does not carry
\* the fingerprint is answered 307 with a Location and an empty body, even if its
\* If-None-Match matches; whenever the rewriter asks for a redirect the answer is
\* that redirect, so no 200, 204 or 304 is given at a URL the rewriter rejects.
C2_BustingBeforeConditional ==
    (Answered /\ req.method \in {"GET", "HEAD", "OPTIONS"}) =>
        /\ ( /\ self.cache_busting.kind = "Query"
             /\ ~(IsSome(req.uri.query) /\
                  Contains(Unwrap(req.uri.query),
                           self.cache_busting.key \o << "=" >> \o Fingerprint))
             => ret.status = 307 )
        /\ ( /\ self.cache_busting.kind = "Suffix"
             /\ ~Contains(req.uri.path, Fingerprint)
             => ret.status = 307 )
        /\ ( /\ self.cache_busting.kind = "Query"
             /\ IsSome(cachebust_uri(self, req.uri, self.cache_busting.key))
             => ret = Unwrap(cachebust_uri(self, req.uri, self.cache_busting.key)) )
        /\ ( /\ self.cache_busting.kind = "Suffix"
             /\ IsSome(cachebust_suffix(self, req.uri, self.cache_busting.sep))
             => ret = Unwrap(cachebust_suffix(self, req.uri, self.cache_busting.sep)) )
        /\ ( ret.status = 307 => IsSome(ret.headers.location) /\ ret.body = << >> )

\* a GET with a matching If-None-Match at a URL without the fingerprint is redirected
C2_Witness ==
    /\ Answered
    /\ req.method = "GET"
    /\ self.cache_busting.kind = "Suffix"
    /\ req.uri.path = << "/", "f" >>
    /\ req.if_none_match = Some(self.etag)
    /\ ret.status = 307

\* C3: every 200, 204 and 304 answer carries Content-Type and the full quoted ETag;
\* its Cache-Control is the immutable one exactly when the busting mode is not None
\* and the must-revalidate one exactly when the mode is None.
C3_Headers ==
    (Answered /\ ret.status \in {200, 204, 304}) =>
        /\ ret.headers.content_type = Some(self.content_type)
        /\ ret.headers.etag = Some(self.etag)
        /\ Unwrap(ret.headers.etag)[1] = Q
        /\ ( ret.headers.cache_control = Some("public, max-age=31536000, immutable")
             <=> self.cache_busting.kind # "None" )
        /\ ( ret.headers.cache_control = Some("public, max-age=0, must-revalidate")
             <=> self.cache_busting.kind = "None" )

\* a 304 of a file without busting carries the must-revalidate Cache-Control
C3_Witness ==
    /\ Answered
    /\ ret.status = 304
    /\ self.cache_busting.kind = "None"
    /\ ret.headers.cache_control = Some("public, max-age=0, must-revalidate")

\* C4: an OPTIONS request that is not redirected is answered 204 with
\* `Allow: GET, HEAD, OPTIONS` and an empty body, also when its If-None-Match matches
\* the etag or is `*`: never 304.
C4_OptionsBeforeConditional ==
    (Answered /\ req.method = "OPTIONS" /\ ret.status # 307) =>
        /\ ret.status = 204
        /\ ret.headers.allow = Some("GET, HEAD, OPTIONS")
        /\ ret.body = << >>

\* an OPTIONS request with `If-None-Match: *` answered 204
C4_Witness ==
    /\ Answered
    /\ req.method = "OPTIONS"
    /\ req.if_none_match = Some(<< "*" >>)
    /\ ret.status = 204

C6_HeadAndGet ==
    ( /\ Answered
      /\ req.method \in {"GET", "HEAD"}
      /\ BustingCheck(self, req.uri) = None
      /\ req.if_none_match \notin MatchingInm ) =>
        /\ ret.status = 200
        /\ HeadersOf(ret)
        /\ (req.method = "HEAD" => ret.body = << >>)
        /\ (req.method = "GET" => ret.body = self.data)

\* respond_borrowed answers a GET with the content
C6_Witness ==
    /\ op = "respond_borrowed"
    /\ req.method = "GET"
    /\ self.cache_busting.kind = "Query"
    /\ ret.status = 200
    /\ ret.body = self.data
    /\ ret.body # << >>

\* C7: every answer is well formed: its status is 200, 204, 304, 307 or 405; Allow is
\* present exactly on 405 and 204; Location exactly on 307; 307 never occurs in mode
\* None; the body is non-empty only for a 200 answer to GET.
C7_WellFormed ==
    Answered =>
        /\ ret.status \in {200, 204, 304, 307, 405}
        /\ (IsSome(ret.headers.allow) <=> ret.status \in {405, 204})
        /\ (IsSome(ret.headers.location) <=> ret.status = 307)
        /\ (self.cache_busting.kind = "None" => ret.status # 307)
        /\ (ret.body # << >> => ret.status = 200 /\ req.method = "GET")

\* a GET of a file without busting is served at a URL that names no fingerprint
C7_Witness ==
    /\ Answered
    /\ self.cache_busting.kind = "None"
    /\ req.method = "GET"
    /\ req.uri = [path |-> << "/", "f" >>, query |-> None]
    /\ ret.status = 200
    /\ ret.body # << >>

\* the '&'-separated fields of the query of the URI just checked
QueryFields == Split(Unwrap(req.uri.query), "&")

\* the field x names the parameter key: its text before the first '=' is key
NamesKey(x, key) == x = key \/ StartsWith(x, key \o << "=" >>)

\* C8 as claimed: cachebust_uri leaves the request unredirected exactly when the
\* query holds the parameter key with a value equal to the unquoted fingerprint.
C8_AnyFieldWithFingerprint ==
    op = "cachebust_uri" =>
        ( ret = None <=>
            /\ IsSome(req.uri.query)
            /\ \E i \in 1..Len(QueryFields) :
                  QueryFields[i] = self.cache_busting.key \o << "=" >> \o Fingerprint )

\* the field x holds '=' and its text before the first '=' is key
HasKeyAndValue(x, key) == IsSome(Find(x, "=")) /\ SliceTo(x, Unwrap(Find(x, "="))) = key

\* the text after the first '=' of the field x
ValueOf(x) == SliceFrom(x, Unwrap(Find(x, "=")) + 1)

\* C8 amended: cachebust_uri leaves the request unredirected exactly when, among the
\* fields of the query that hold '=' and have key before their first '=', the first
\* one has the unquoted fingerprint after it; without a query, without such a field,
\* or with another value in the first one, it redirects.
C8_FirstFieldDecides ==
    op = "cachebust_uri" =>
        ( ret = None <=>
            /\ IsSome(req.uri.query)
            /\ \E i \in 1..Len(QueryFields) :
                  /\ HasKeyAndValue(QueryFields[i], self.cache_busting.key)
                  /\ ValueOf(QueryFields[i]) = Fingerprint
                  /\ \A j \in 1..(i - 1) :
                        ~HasKeyAndValue(QueryFields[j], self.cache_busting.key) )

\* `v=&v=a` holds v with the fingerprint, after a first v with an empty value: redirected
C8_Witness ==
    /\ op = "cachebust_uri"
    /\ req.uri.query = Some(<< "v", "=", "&", "v", "=", "a" >>)
    /\ ret # None

\* C9 as claimed: the Location of a redirect of cachebust_uri is the unchanged path,
\* `?key=<fingerprint>`, and then every original field in its order and spelling except
\* the fields that name key (with a value, with an empty value, or bare).
C9_LocationDropsEveryKeyField ==
    (op = "cachebust_uri" /\ ret # None) =>
        Unwrap(ret).headers.location =
            Some(req.uri.path \o << "?" >> \o self.cache_busting.key \o << "=" >> \o Fingerprint
                 \o (IF req.uri.query = None \/ req.uri.query = Some(<< >>)
                     THEN << >>
                     ELSE ConcatWith(
                            SelectSeq(QueryFields,
                                      LAMBDA x : ~NamesKey(x, self.cache_busting.key)),
                            << "&" >>)))

\* the text s is longer than the fingerprint and ends with it, the separator, when one
\* is configured, standing just before it
EndsWithFingerprint(s) ==
    /\ Len(s) > Len(Fingerprint)
    /\ EndsWith(s, self.cache_busting.sep \o Fingerprint)

\* the path with its extension, if any, and the dot before it removed
Basename(path) ==
    IF \E i \in 1..Len(path) :
          path[i] = "." /\ \A j \in (i + 1)..Len(path) : path[j] \notin {".", "/", "\\"}
    THEN SubSeq(path, 1,
                (CHOOSE i \in 1..Len(path) :
                    path[i] = "." /\ \A j \in (i + 1)..Len(path) : path[j] \notin {".", "/", "\\"})
                - 1)
    ELSE path

\* C10 as claimed: cachebust_suffix leaves the request unredirected exactly when the
\* basename of the path ends with the fingerprint, preceded by the separator if any.
C10_BasenameOnly ==
    op = "cachebust_suffix" =>
        (ret = None <=> EndsWithFingerprint(Basename(req.uri.path)))

\* C10 amended: cachebust_suffix leaves the request unredirected exactly when the whole
\* path, or its basename, ends with the fingerprint, preceded by the separator if any.
C10_PathOrBasename ==
    op = "cachebust_suffix" =>
        ( ret = None <=>
            \/ EndsWithFingerprint(req.uri.path)
            \/ EndsWithFingerprint(Basename(req.uri.path)) )

\* `/f.a` with separator '.': the path ends with `.a`, its basename `/f` does not
C10_Witness ==
    /\ op = "cachebust_suffix"
    /\ self.cache_busting.sep = Some(".")
    /\ req.uri.path = << "/", "f", ".", "a" >>
    /\ ret = None

\* the 1-based place of the right-most c in the text t, 0 when t holds no c
LastIndexOf(t, c) ==
    IF \E i \in 1..Len(t) : t[i] = c
    THEN CHOOSE i \in 1..Len(t) : t[i] = c /\ \A j \in (i + 1)..Len(t) : t[j] # c
    ELSE 0

\* the basename with everything from its right-most separator onward removed, when that
\* separator lies after the last '/'; the basename whole otherwise
Stem(base, s) ==
    IF LastIndexOf(base, s) > LastIndexOf(base, "/")
    THEN SubSeq(base, 1, LastIndexOf(base, s) - 1)
    ELSE base

\* the dot and the extension of the path, empty when the path has no extension
DotExtension(path) == SubSeq(path, Len(Basename(path)) + 1, Len(path))

\* the directory part of the path, up to and including its last '/'
Directory(path) == SubSeq(path, 1, LastIndexOf(path, "/"))

\* C11: when cachebust_suffix redirects with a separator s configured, the Location is
\* the basename cut at its right-most s (only when that s lies after the last '/'),
\* followed by s, the unquoted fingerprint and the dot and extension of the request
\* path if it had one; the directory part of the path is carried over unaltered.
C11_SuffixLocation ==
    (op = "cachebust_suffix" /\ IsSome(self.cache_busting.sep) /\ IsSome(ret)) =>
        LET path == req.uri.path
            s == Unwrap(self.cache_busting.sep)
            location == Unwrap(Unwrap(ret).headers.location)
        IN  /\ location = Stem(Basename(path), s) \o << s >> \o Fingerprint
                              \o DotExtension(path)
            /\ StartsWith(location, Directory(path))

\* `/f.f.f` with separator '.' goes to `/f.a.f`: the basename `/f.f` is cut at its
\* right-most '.', then come the separator, the fingerprint and the extension
C11_Witness ==
    /\ op = "cachebust_suffix"
    /\ self.cache_busting.sep = Some(".")
    /\ req.uri.path = << "/", "f", ".", "f", ".", "f" >>
    /\ IsSome(ret)
    /\ Unwrap(Unwrap(ret).headers.location) = << "/", "f", ".", "a", ".", "f" >>

\* http::Uri of a text: the path is what stands before the first '?', the query what
\* stands after it
ParseUri(text) ==
    LET q == Find(text, "?")
    IN  IF IsSome(q)
        THEN [path |-> SliceTo(text, Unwrap(q)), query |-> Some(SliceFrom(text, Unwrap(q) + 1))]
        ELSE [path |-> text, query |-> None]

\* C12: the URL reported by QueryCacheBustedHttpFile::url() is
\* <file_url>?<key>=<unquoted fingerprint> of the wrapped file, for a wrapper built by
\* new and for one built by static_http_file_querycache!, and the Query-mode check does
\* not redirect a request for that URL.
C12_UrlIsCanonical ==
    op \in {"new", "static_http_file_querycache"} =>
        /\ url(ret) = req.file_url \o << "?" >> \o req.query_var \o << "=" >> \o Fingerprint
        /\ cachebust_uri(ret.inner, ParseUri(url(ret)), req.query_var) = None

\* ------------------------------------------------------------- the etag

\* the alphabet of standard base64, with '+' and '/' for the last two sextets
BASE64URL_Standard ==
    << "A", "B", "C", "D", "E", "F", "G", "H", "I", "J", "K", "L", "M", "N", "O", "P",
       "Q", "R", "S", "T", "U", "V", "W", "X", "Y", "Z", "a", "b", "c", "d", "e", "f",
       "g", "h", "i", "j", "k", "l", "m", "n", "o", "p", "q", "r", "s", "t", "u", "v",
       "w", "x", "y", "z", "0", "1", "2", "3", "4", "5", "6", "7", "8", "9", "+", "/" >>

\* const BASE64URL: the sextet k is written as BASE64URL[k]
BASE64URL ==
    << "A", "B", "C", "D", "E", "F", "G", "H", "I", "J", "K", "L", "M", "N", "O", "P",
       "Q", "R", "S", "T", "U", "V", "W", "X", "Y", "Z", "a", "b", "c", "d", "e", "f",
       "g", "h", "i", "j", "k", "l", "m", "n", "o", "p", "q", "r", "s", "t", "u", "v",
       "w", "x", "y", "z", "0", "1", "2", "3", "4", "5", "6", "7", "8", "9", "-", "_" >>

\* the outcome of a b64url_const call that panics
B64Panic == [panic |-> TRUE, trg |-> << >>, n |-> 0]

\* a store that is not bounds-checked: a write past the buffer is lost
Store_Unchecked(st, o, c) ==
    IF st.panic THEN B64Panic
    ELSE IF o >= Len(st.trg) THEN st
    ELSE [st EXCEPT !.trg[o + 1] = c]

\* trg[o] = c, a panic when o is no index of trg
Store(st, o, c) ==
    IF st.panic \/ o >= Len(st.trg) THEN B64Panic ELSE [st EXCEPT !.trg[o + 1] = c]

\* the while loop over whole groups of three bytes, then the match on the bytes left
RECURSIVE b64url_loop(_, _, _, _)
b64url_loop(data, st, i, o) ==
    IF st.panic THEN st
    ELSE IF Len(data) - i >= 3
    THEN LET b0 == data[i + 1]
             b1 == data[i + 2]
             b2 == data[i + 3]
             s0 == Store(st, o, BASE64URL[(b0 \div 4) + 1])
             s1 == Store(s0, o + 1, BASE64URL[((b0 % 4) * 16 + (b1 \div 16)) + 1])
             s2 == Store(s1, o + 2, BASE64URL[((b1 % 16) * 4 + (b2 \div 64)) + 1])
             s3 == Store(s2, o + 3, BASE64URL[(b2 % 64) + 1])
         IN  b64url_loop(data, s3, i + 3, o + 4)
    ELSE IF Len(data) - i = 1
    THEN LET b0 == data[i + 1]
             s0 == Store(st, o, BASE64URL[(b0 \div 4) + 1])
             s1 == Store(s0, o + 1, BASE64URL[((b0 % 4) * 16) + 1])
         IN  IF s1.panic THEN s1 ELSE [s1 EXCEPT !.n = o + 2]
    ELSE IF Len(data) - i = 2
    THEN LET b0 == data[i + 1]
             b1 == data[i + 2]
             s0 == Store(st, o, BASE64URL[(b0 \div 4) + 1])
             s1 == Store(s0, o + 1, BASE64URL[((b0 % 4) * 16 + (b1 \div 16)) + 1])
             s2 == Store(s1, o + 2, BASE64URL[((b1 % 16) * 4) + 1])
         IN  IF s2.panic THEN s2 ELSE [s2 EXCEPT !.n = o + 3]
    ELSE [st EXCEPT !.n = o]

\* b64url_const::<S>(data, trg, offset), S the length of trg: (trg, o) or a panic
b64url_const(data, trg, offset) ==
    IF offset >= Len(trg) THEN B64Panic
    ELSE IF Len(trg) - offset < (4 * Len(data)) \div 3 THEN B64Panic
    ELSE b64url_loop(data, [panic |-> FALSE, trg |-> trg, n |-> 0], 0, offset)

\* [0; 12]
ZeroedEtag == [k \in 1..12 |-> "\\0"]

\* a compute_etag with a buffer of 13 bytes, whose closing quote follows the 11th
\* character
compute_etag_ClosesAfterLast(h) ==
    LET r == b64url_const(h, [k \in 1..13 |-> "\\0"], 1)
    IN  IF r.panic THEN Panicked
        ELSE IF r.n # 12 THEN Panicked
        ELSE [r.trg EXCEPT ![1] = Q, ![13] = Q]

\* compute_etag, h being xxh3_64(data).to_be_bytes(); built with debug assertions
compute_etag(h) ==
    LET r == b64url_const(h, ZeroedEtag, 1)
    IN  IF r.panic THEN Panicked
        ELSE IF r.n # 12 THEN Panicked
        ELSE [r.trg EXCEPT ![1] = Q, ![12] = Q]

\* compute_etag_nonconst, h being xxh3_64(data).to_be_bytes(); the bytes as a String
compute_etag_nonconst(h) ==
    LET r == b64url_const(h, ZeroedEtag, 1)
    IN  IF r.panic THEN Panicked
        ELSE IF r.n # 12 THEN Panicked
        ELSE [r.trg EXCEPT ![1] = Q, ![12] = Q]

\* the hashes of the spans: u64 values as 8 big-endian bytes, each byte from a sample
\* with all bits clear, mixed bits and all bits set
HashBytes == {0, 165, 255}
Hashes == [1..8 -> HashBytes]

\* the etags given to the accessors: every text up to MaxEtagLen over a quote and two
\* letters
MaxEtagLen == 4
EtagChars == {Q, "a", "b"}
Etags == Strs(EtagChars, MaxEtagLen)

\* no file entity takes part in the calls of the free functions
InitFree ==
    /\ self = None
    /\ op = "idle"
    /\ req = None
    /\ ret = None

\* compute_etag(data) for a span whose hash is h
ComputeEtag ==
    /\ op = "idle"
    /\ \E h \in Hashes :
        /\ op' = "compute_etag"
        /\ req' = [hash |-> h]
        /\ ret' = compute_etag(h)
        /\ UNCHANGED self

\* compute_etag_nonconst(data) for a span whose hash is h
ComputeEtagNonconst ==
    /\ op = "idle"
    /\ \E h \in Hashes :
        /\ op' = "compute_etag_nonconst"
        /\ req' = [hash |-> h]
        /\ ret' = compute_etag_nonconst(h)
        /\ UNCHANGED self

\* const_etag_str of a ConstHttpFile whose etag is e
ConstEtagStr ==
    /\ op = "idle"
    /\ \E e \in Etags :
        /\ op' = "ConstHttpFile::const_etag_str"
        /\ req' = [etag |-> e]
        /\ ret' = const_etag_str([etag |-> e])
        /\ UNCHANGED self

\* const_etag_str of a SharedHttpFile whose etag is e
SharedConstEtagStr ==
    /\ op = "idle"
    /\ \E e \in Etags :
        /\ op' = "SharedHttpFile::const_etag_str"
        /\ req' = [etag |-> e]
        /\ ret' = SharedHttpFile_const_etag_str([etag |-> e])
        /\ UNCHANGED self

\* the calls of b64url_const: data of up to MaxB64DataLen bytes, a zeroed buffer of
\* 1 to MaxB64BufLen bytes, and an offset up to the size of the buffer
MaxB64DataLen == 4
MaxB64BufLen == 8
B64Calls ==
    { [data |-> d, trg |-> [k \in 1..size |-> "\\0"], offset |-> o] :
        d \in Strs(HashBytes, MaxB64DataLen), size \in 1..MaxB64BufLen,
        o \in 0..MaxB64BufLen }

\* b64url_const(data, trg, offset)
B64urlConst ==
    /\ op = "idle"
    /\ \E call \in B64Calls :
        /\ op' = "b64url_const"
        /\ req' = call
        /\ ret' = b64url_const(call.data, call.trg, call.offset)
        /\ UNCHANGED self

\* HttpFile::etag_str of a file whose etag() is e
EtagStr ==
    /\ op = "idle"
    /\ \E e \in Etags :
        /\ op' = "etag_str"
        /\ req' = [etag |-> e]
        /\ ret' = etag_str(e)
        /\ UNCHANGED self

NextEtag ==
    \/ ComputeEtag \/ ComputeEtagNonconst \/ EtagStr \/ B64urlConst
    \/ ConstEtagStr \/ SharedConstEtagStr
    \/ Return

SpecEtag == InitFree /\ [][NextEtag]_vars

\* the alphabet A-Z a-z 0-9 - _
Base64UrlAlphabet ==
    { "A", "B", "C", "D", "E", "F", "G", "H", "I", "J", "K", "L", "M", "N", "O", "P", "Q", "R", "S", "T", "U", "V", "W", "X", "Y", "Z",
      "a", "b", "c", "d", "e", "f", "g", "h", "i", "j", "k", "l", "m", "n", "o", "p", "q", "r", "s", "t", "u", "v", "w", "x", "y", "z",
      "0", "1", "2", "3", "4", "5", "6", "7", "8", "9", "-", "_" }

\* C13: for every span, compute_etag and compute_etag_nonconst return a token of
\* exactly 12 bytes whose first and last bytes are '"' and whose 10 inner bytes are in
\* the base64url alphabet; both give the same token for the same span.
C13_EtagToken ==
    op \in {"compute_etag", "compute_etag_nonconst"} =>
        /\ Len(ret) = 12
        /\ ret[1] = Q
        /\ ret[12] = Q
        /\ \A k \in 2..11 : ret[k] \in Base64UrlAlphabet
        /\ ret = compute_etag(req.hash)
        /\ ret = compute_etag_nonconst(req.hash)

\* a span whose hash has all bits set: the token is `"__________"`, ten times the
\* sextet 63
C13_Witness ==
    /\ op = "compute_etag"
    /\ req.hash = [k \in 1..8 |-> 255]
    /\ ret = << Q >> \o [k \in 1..10 |-> "_"] \o << Q >>

\* C14: etag_str returns the etag without its first and last character when the etag
\* is longer than 2 characters and both starts and ends with '"', and the etag
\* unchanged for every other etag.
C14_EtagStr ==
    op = "etag_str" =>
        LET e == req.etag
        IN  IF Len(e) > 2 /\ e[1] = Q /\ e[Len(e)] = Q
            THEN ret = SubSeq(e, 2, Len(e) - 1)
            ELSE ret = e

\* the etag `""` of two quotes is returned with its quotes
C14_Witness ==
    /\ op = "etag_str"
    /\ req.etag = << Q, Q >>
    /\ ret = << Q, Q >>

\* --------------------------------------------------------- the MIME type

\* the bytes of a text, one character each; a byte that is no printable ASCII is
\* written "\\xNN" by hand
Chars(s) == [i \in 1..Len(s) |-> SubSeq(s, i, i)]

\* detect_mime_type_ext: the arms of the match on the extension
ExtTable ==
    { << Chars("css"), "text/css" >>,
      << Chars("html"), "text/html" >>,
      << Chars("htm"), "text/html" >>,
      << Chars("js"), "application/javascript" >>,
      << Chars("mjs"), "application/javascript" >>,
      << Chars("json"), "application/json" >>,
      << Chars("jsonld"), "application/ld+json" >>,
      << Chars("wasm"), "application/wasm" >>,
      << Chars("webmanifest"), "application/manifest+json" >>,
      << Chars("xhtml"), "application/xhtml+xml" >>,
      << Chars("yaml"), "application/x-yaml" >>,
      << Chars("yml"), "application/x-yaml" >>,
      << Chars("toml"), "application/toml" >>,
      << Chars("ini"), "text/plain" >>,
      << Chars("sh"), "application/x-sh" >>,
      << Chars("bat"), "application/x-bat" >>,
      << Chars("cmd"), "application/x-cmd" >>,
      << Chars("avif"), "image/avif" >>,
      << Chars("apng"), "image/apng" >>,
      << Chars("bmp"), "image/bmp" >>,
      << Chars("png"), "image/png" >>,
      << Chars("jpg"), "image/jpeg" >>,
      << Chars("jpeg"), "image/jpeg" >>,
      << Chars("gif"), "image/gif" >>,
      << Chars("ico"), "image/vnd.microsoft.icon" >>,
      << Chars("svg"), "image/svg+xml" >>,
      << Chars("tiff"), "image/tiff" >>,
      << Chars("tif"), "image/tiff" >>,
      << Chars("webp"), "image/webp" >>,
      << Chars("eot"), "application/vnd.ms-fontobject" >>,
      << Chars("otf"), "font/otf" >>,
      << Chars("ttf"), "font/ttf" >>,
      << Chars("woff"), "font/woff" >>,
      << Chars("woff2"), "font/woff2" >>,
      << Chars("atom"), "application/atom+xml" >>,
      << Chars("csv"), "text/csv" >>,
      << Chars("doc"), "application/msword" >>,
      << Chars("docx"), "application/vnd.openxmlformats-officedocument.wordprocessingml.document" >>,
      << Chars("ics"), "text/calendar" >>,
      << Chars("md"), "text/markdown" >>,
      << Chars("odp"), "application/vnd.oasis.opendocument.presentation" >>,
      << Chars("ods"), "application/vnd.oasis.opendocument.spreadsheet" >>,
      << Chars("odt"), "application/vnd.oasis.opendocument.text" >>,
      << Chars("pdf"), "application/pdf" >>,
      << Chars("ppt"), "application/vnd.ms-powerpoint" >>,
      << Chars("pptx"), "application/vnd.openxmlformats-officedocument.presentationml.presentation" >>,
      << Chars("rss"), "application/rss+xml" >>,
      << Chars("rtf"), "application/rtf" >>,
      << Chars("txt"), "text/plain" >>,
      << Chars("vsd"), "application/vnd.visio" >>,
      << Chars("xls"), "application/vnd.ms-excel" >>,
      << Chars("xlsx"), "application/vnd.openxmlformats-officedocument.spreadsheetml.sheet" >>,
      << Chars("xml"), "application/xml" >>,
      << Chars("7z"), "application/x-7z-compressed" >>,
      << Chars("bz2"), "application/x-bzip2" >>,
      << Chars("gz"), "application/gzip" >>,
      << Chars("jar"), "application/java-archive" >>,
      << Chars("mpkg"), "application/vnd.apple.installer+xml" >>,
      << Chars("rar"), "application/vnd.rar" >>,
      << Chars("tar"), "application/x-tar" >>,
      << Chars("war"), "application/java-archive" >>,
      << Chars("xz"), "application/x-xz" >>,
      << Chars("zip"), "application/zip" >>,
      << Chars("aac"), "audio/aac" >>,
      << Chars("flac"), "audio/flac" >>,
      << Chars("m4a"), "audio/mp4" >>,
      << Chars("mid"), "audio/midi" >>,
      << Chars("midi"), "audio/midi" >>,
      << Chars("mp3"), "audio/mpeg" >>,
      << Chars("oga"), "audio/ogg" >>,
      << Chars("opus"), "audio/opus" >>,
      << Chars("wav"), "audio/wav" >>,
      << Chars("weba"), "audio/webm" >>,
      << Chars("mp4"), "video/mp4" >>,
      << Chars("m4v"), "video/mp4" >>,
      << Chars("mpeg"), "video/mpeg" >>,
      << Chars("mpg"), "video/mpeg" >>,
      << Chars("mkv"), "video/x-matroska" >>,
      << Chars("webm"), "video/webm" >>,
      << Chars("m3u8"), "application/x-mpegURL" >>,
      << Chars("ogg"), "application/ogg" >>,
      << Chars("ogx"), "application/ogg" >> }

\* detect_mime_type_ext
detect_mime_type_ext(path) ==
    LET ext == file_ext(path)
    IN  IF ~IsSome(ext) THEN None
        ELSE IF \E e \in ExtTable : e[1] = Unwrap(ext)
        THEN Some((CHOOSE e \in ExtTable : e[1] = Unwrap(ext))[2])
        ELSE None

\* enum MagicOffset and enum Magic
At(n) == [at |-> TRUE, n |-> n]
Before(n) == [at |-> FALSE, n |-> n]
Mime(mime) == [specialized |-> FALSE, mime |-> Some(mime), magics |-> << >>]
Specialized(mime, magics) == [specialized |-> TRUE, mime |-> mime, magics |-> magics]

FTYP ==
    << << At(4), Chars("avif"), Mime("image/avif") >>,
       << At(4), Chars("heic"), Mime("image/heic") >>,
       << At(4), Chars("isom"), Mime("video/mp4") >>,
       << At(4), Chars("mp41"), Mime("video/mp4") >>,
       << At(4), Chars("mp42"), Mime("video/mp4") >>,
       << At(4), Chars("mmp4"), Mime("video/mp4") >>,
       << At(4), Chars("M4A"), Mime("audio/mp4") >> >>

RIFF ==
    << << At(4), Chars("AVI "), Mime("video/x-msvideo") >>,
       << At(4), Chars("CDDA"), Mime("audio/aiff") >>,
       << At(4), Chars("WAVE"), Mime("audio/wav") >>,
       << At(4), Chars("WEBP"), Mime("image/webp") >> >>

XML ==
    << << Before(46), Chars("<!DOCTYPE html"), Mime("application/xhtml+xml") >>,
       << Before(46), Chars("<!DOCTYPE svg"), Mime("image/svg+xml") >>,
       << Before(120), Chars("xmlns=\"http://www.w3.org/1999/html\""), Mime("application/xhtml+xml") >>,
       << Before(120), Chars("xmlns=\"http://www.w3.org/2000/svg\""), Mime("image/svg+xml") >>,
       << Before(46), Chars("<html"), Mime("application/xhtml+xml") >>,
       << Before(46), Chars("<svg"), Mime("image/svg+xml") >> >>

MAGICS ==
    << << At(0), << "\\x00", "\\x00", "\\x01", "\\xBA" >>, Mime("video/mpeg") >>,
       << At(0), << "\\x00", "\\x00", "\\x01", "\\xBB" >>, Mime("video/mpeg") >>,
       << At(0), << "\\x00" >> \o Chars("asm"), Mime("text/x-asm") >>,
       << At(0), << "\\x1A" >> \o Chars("E") \o << "\\xDF", "\\xA3" >>, Mime("video/webm") >>,
       << At(0), << "\\x1F", "\\x8B", "\\x08" >>, Mime("application/x-gzip") >>,
       << At(0), Chars("#!/bin/bash") \o << "\\x0A" >>, Mime("application/x-sh") >>,
       << At(0), Chars("#!/bin/sh") \o << "\\x0A" >>, Mime("application/x-sh") >>,
       << At(0), Chars("7z") \o << "\\xBC", "\\xAF" >> \o Chars("'") \o << "\\x1C" >>, Mime("application/x-7z-compressed") >>,
       << At(0), Chars("<?xml"), Specialized(Some("text/xml"), XML) >>,
       << At(0), Chars("<!DOCTYPE html"), Mime("text/html") >>,
       << At(0), Chars("<html"), Mime("text/html") >>,
       << At(0), Chars("<svg"), Mime("image/svg+xml") >>,
       << At(0), Chars("BZh"), Mime("application/x-bzip2") >>,
       << At(0), Chars("GIF87a"), Mime("image/gif") >>,
       << At(0), Chars("GIF89a"), Mime("image/gif") >>,
       << At(0), Chars("I I"), Mime("image/tiff") >>,
       << At(0), Chars("ID3"), Mime("audio/mp3") >>,
       << At(0), Chars("II*") \o << "\\x00" >>, Mime("image/tiff") >>,
       << At(0), Chars("MM") \o << "\\x00" >> \o Chars("*"), Mime("image/tiff") >>,
       << At(0), Chars("MM") \o << "\\x00" >> \o Chars("+"), Mime("image/tiff") >>,
       << At(0), Chars("MThd"), Mime("audio/midi") >>,
       << At(0), Chars("OggS") \o << "\\x00", "\\x02", "\\x00", "\\x00", "\\x00", "\\x00", "\\x00", "\\x00", "\\x00", "\\x00" >>, Mime("application/ogg") >>,
       << At(0), Chars("PK") \o << "\\x03", "\\x04" >>, Mime("application/ogg") >>,
       << At(0), Chars("RIFF"), Specialized(None, RIFF) >>,
       << At(0), Chars("Rar!") \o << "\\x1A", "\\x07" >>, Mime("application/vnd.rar") >>,
       << At(0), Chars("gimp xcf "), Mime("image/x-xcf") >>,
       << At(0), Chars("icns"), Mime("image/x-icns") >>,
       << At(0), Chars("true") \o << "\\x00" >>, Mime("font/ttf") >>,
       << At(0), Chars("wOFF"), Mime("font/woff") >>,
       << At(0), Chars("wOF2"), Mime("font/woff2") >>,
       << At(0), Chars("%PDF-"), Mime("application/pdf") >>,
       << At(0), Chars("%PNG") \o << "\\x0D", "\\x0A", "\\x1A", "\\x0A" >>, Mime("image/png") >>,
       << At(0), << "\\xFF", "\\xD8" >>, Mime("image/jpeg") >>,
       << At(4), Chars("ftyp"), Specialized(None, FTYP) >>,
       << At(4), Chars("moov"), Mime("video/quicktime") >>,
       << At(257), Chars("ustar"), Mime("application/x-tar") >> >>

\* bytes_matches(data_ptr.add(lhs), rhs): "true", "false", or "oob" when a byte at or
\* beyond the end of the content is read before a difference is met
bytes_matches(data, lhs, rhs) ==
    LET stop == { i \in 0..(Len(rhs) - 1) :
                    lhs + i >= Len(data) \/ data[lhs + i + 1] # rhs[i + 1] }
    IN  IF stop = {} THEN "true"
        ELSE LET i == CHOOSE k \in stop : \A l \in stop : k <= l
             IN  IF lhs + i >= Len(data) THEN "oob" ELSE "false"

\* the loop over j of a MagicOffset::Before rule
RECURSIVE is_matching(_, _, _, _)
is_matching(data, magic, mx, j) ==
    LET m == bytes_matches(data, j, magic)
    IN  IF m = "false"
        THEN IF j + 1 # mx THEN is_matching(data, magic, mx, j + 1) ELSE "false"
        ELSE m

\* the two arms of a MagicOffset::Before(offset) rule: the rule is passed over when
\* the pattern is longer than the content, else the loop runs with mx the smaller of
\* offset and data_len - magic.len()
matches_before(data, offset, magic) ==
    IF Len(magic) > Len(data) THEN "false"
    ELSE LET mx0 == Len(data) - Len(magic)
             mx == IF offset < mx0 THEN offset ELSE mx0
         IN  is_matching(data, magic, mx, 0)

\* no rule matched
NoMime == [mime |-> None, oob |-> FALSE, crash |-> FALSE]

\* lookup_magic from the rule i on. A read beyond the content is undefined behaviour:
\* with ub = "crash" the process dies on it, with ub = "match" the foreign bytes
\* compare equal and the rule matches (the loop has no other way out)
RECURSIVE lookup_magic(_, _, _, _)
lookup_magic(magics, data, i, ub) ==
    IF i = Len(magics) THEN NoMime
    ELSE LET offset == magics[i + 1][1]
             magic == magics[i + 1][2]
             magic_type == magics[i + 1][3]
             m == IF offset.at
                  THEN IF offset.n + Len(magic) > Len(data) THEN "false"
                       ELSE bytes_matches(data, offset.n, magic)
                  ELSE matches_before(data, offset.n, magic)
         IN  IF m = "false" THEN lookup_magic(magics, data, i + 1, ub)
             ELSE IF m = "oob" /\ ub = "crash"
             THEN [mime |-> None, oob |-> TRUE, crash |-> TRUE]
             ELSE IF ~magic_type.specialized
             THEN [mime |-> magic_type.mime, oob |-> (m = "oob"), crash |-> FALSE]
             ELSE LET r == lookup_magic(magic_type.magics, data, 0, ub)
                  IN  IF r.crash \/ IsSome(r.mime)
                      THEN [r EXCEPT !.oob = r.oob \/ (m = "oob")]
                      ELSE [mime |-> magic_type.mime, oob |-> r.oob \/ (m = "oob"),
                            crash |-> FALSE]

\* detect_mime_type_magic
detect_mime_type_magic(data, ub) ==
    IF Len(data) # 0 THEN lookup_magic(MAGICS, data, 0, ub) ELSE NoMime

\* tests/mime_detect.rs: the pixel files and their MIME types
DETECT_MIME_TYPE ==
    { << Chars("./assets/pixel/pixel.avif"), "image/avif" >>,
      << Chars("./assets/pixel/pixel.bmp"), "image/bmp" >>,
      << Chars("./assets/pixel/pixel.eps"), "application/eps" >>,
      << Chars("./assets/pixel/pixel.gif"), "image/gif" >>,
      << Chars("./assets/pixel/pixel.heic"), "image/heic" >>,
      << Chars("./assets/pixel/pixel.ico"), "image/vnd.microsoft.icon" >>,
      << Chars("./assets/pixel/pixel.jpg"), "image/jpeg" >>,
      << Chars("./assets/pixel/pixel.pdf"), "application/pdf" >>,
      << Chars("./assets/pixel/pixel.png"), "image/png" >>,
      << Chars("./assets/pixel/pixel.ps"), "application/postscript" >>,
      << Chars("./assets/pixel/pixel.tif"), "image/tiff" >>,
      << Chars("./assets/pixel/pixel.webp"), "image/webp" >> }

\* the paths given to detect_mime_type_ext: up to MaxPathTokens pieces out of a name,
\* the dot, the two separators and two extensions; paths of the unit test that are
\* longer than that; the pixel files of the integration test; and
\* `foo.` followed by each extension of the table
MaxPathTokens == 4
PathTokens ==
    { Chars("foo"), Chars("."), Chars("/"), Chars("\\"), Chars("js"), Chars("txt") }
MimePaths ==
    { ConcatWith(ts, << >>) : ts \in Strs(PathTokens, MaxPathTokens) }
    \cup { Chars("foo.js/test"), Chars("foo.html"), Chars("foo.svg") }
    \cup { e[1] : e \in DETECT_MIME_TYPE }
    \cup { Chars("foo.") \o e[1] : e \in ExtTable }

\* the contents given to detect_mime_type_magic, each made of up to MaxContentTokens
\* pieces: XML texts out of the declaration, a blank, a run of 41 blanks (which with
\* `<?xml` fills the 46 bytes before the bound of the root rules), the patterns of the
\* XML rules and another element; and boxes out of a box size, `ftyp` and five brands
MaxContentTokens == 3
XmlTokens ==
    { Chars("<?xml"), Chars(" "), [k \in 1..41 |-> " "],
      Chars("<!DOCTYPE html"), Chars("<!DOCTYPE svg"),
      Chars("xmlns=\"http://www.w3.org/1999/html\""),
      Chars("xmlns=\"http://www.w3.org/2000/svg\""),
      Chars("<html"), Chars("<svg"), Chars("<g>") }
BoxTokens ==
    { << "\\x00", "\\x00", "\\x00", " " >>, Chars("ftyp"),
      Chars("avif"), Chars("heic"), Chars("isom"), Chars("mp41"), Chars("mp42") }
Contents ==
    { ConcatWith(ts, << >>) : ts \in Strs(XmlTokens, MaxContentTokens) }
    \cup { ConcatWith(ts, << >>) : ts \in Strs(BoxTokens, MaxContentTokens) }

\* what a read beyond the content can lead to
UbOutcomes == {"crash", "match"}

\* detect_mime_type_ext(path)
DetectMimeTypeExt ==
    /\ op = "idle"
    /\ \E path \in MimePaths :
        /\ op' = "detect_mime_type_ext"
        /\ req' = [path |-> path]
        /\ ret' = detect_mime_type_ext(path)
        /\ UNCHANGED self

\* detect_mime_type_magic(data)
DetectMimeTypeMagic ==
    /\ op = "idle"
    /\ \E data \in Contents, ub \in UbOutcomes :
        /\ op' = "detect_mime_type_magic"
        /\ req' = [data |-> data]
        /\ ret' = detect_mime_type_magic(data, ub)
        /\ UNCHANGED self

NextMime == DetectMimeTypeExt \/ DetectMimeTypeMagic \/ Return

SpecMime == InitFree /\ [][NextMime]_vars

\* the final segment of a path: what stands after its last '/' or '\'
FinalSegment(path) ==
    LET slash == LastIndexOf(path, "/")
        backslash == LastIndexOf(path, "\\")
    IN  SubSeq(path, (IF slash > backslash THEN slash ELSE backslash) + 1, Len(path))

\* the entry of the extension table for ext, None when it has none
TableEntry(ext) ==
    IF \E e \in ExtTable : e[1] = ext
    THEN Some((CHOOSE e \in ExtTable : e[1] = ext)[2])
    ELSE None

\* C15: detect_mime_type_ext takes as extension only the text after the last '.' of the
\* final path segment: a path whose final segment holds no '.' or ends in '.' yields
\* None, and a known extension yields its table entry (`foo.txt` gives text/plain).
C15_ExtensionOfFinalSegment ==
    op = "detect_mime_type_ext" =>
        LET seg == FinalSegment(req.path)
            dot == LastIndexOf(seg, ".")
        IN  /\ IF dot = 0 \/ dot = Len(seg)
               THEN ret = None
               ELSE ret = TableEntry(SubSeq(seg, dot + 1, Len(seg)))
            /\ req.path = Chars("foo.txt") => ret = Some("text/plain")
            /\ req.path \in { Chars("foo"), Chars("foo/js"), Chars("foo.js/test"),
                              Chars("foo.") } => ret = None

\* `foo.js/test`: the extension of an earlier segment does not count
C15_Witness ==
    /\ op = "detect_mime_type_ext"
    /\ req.path = Chars("foo.js/test")
    /\ ret = None

\* C16: for every entry of the pixel test table, detect_mime_type_ext on the path of
\* the entry returns the MIME type of the entry.
C16_PixelTable ==
    op = "detect_mime_type_ext" =>
        \A e \in DETECT_MIME_TYPE : req.path = e[1] => ret = Some(e[2])

\* the pattern occurs in the content, starting at one of the first `bound` offsets
OccursBefore(data, pattern, bound) ==
    \E p \in 0..(bound - 1) :
        /\ p + Len(pattern) <= Len(data)
        /\ SubSeq(data, p + 1, p + Len(pattern)) = pattern

\* an html doctype, an `<html` root or the html namespace follows in the prolog window
HtmlFollows(data) ==
    \/ OccursBefore(data, Chars("<!DOCTYPE html"), 46)
    \/ OccursBefore(data, Chars("<html"), 46)
    \/ OccursBefore(data, Chars("xmlns=\"http://www.w3.org/1999/html\""), 120)

\* an svg doctype, an `<svg` root or the svg namespace follows in the prolog window
SvgFollows(data) ==
    \/ OccursBefore(data, Chars("<!DOCTYPE svg"), 46)
    \/ OccursBefore(data, Chars("<svg"), 46)
    \/ OccursBefore(data, Chars("xmlns=\"http://www.w3.org/2000/svg\""), 120)

\* C17: content that begins with `<?xml` is never answered with None: html marks in
\* the prolog window give application/xhtml+xml, svg marks give image/svg+xml, and
\* without any of these marks the answer is the fallback text/xml.
C17_XmlSpecialised ==
    (op = "detect_mime_type_magic" /\ StartsWith(req.data, Chars("<?xml"))) =>
        /\ IsSome(ret.mime)
        /\ (HtmlFollows(req.data) /\ ~SvgFollows(req.data))
              => ret.mime = Some("application/xhtml+xml")
        /\ (SvgFollows(req.data) /\ ~HtmlFollows(req.data))
              => ret.mime = Some("image/svg+xml")
        /\ (~HtmlFollows(req.data) /\ ~SvgFollows(req.data))
              => ret.mime = Some("text/xml")

\* the MIME types of the brands of an `ftyp` box
BrandMime ==
    { << Chars("avif"), "image/avif" >>, << Chars("heic"), "image/heic" >>,
      << Chars("isom"), "video/mp4" >>, << Chars("mp41"), "video/mp4" >>,
      << Chars("mp42"), "video/mp4" >> }

\* C18: content with `ftyp` at byte offset 4, after the four bytes of the box size, is
\* answered by the brand that follows it: image/avif for avif, image/heic for heic,
\* video/mp4 for isom, mp41 and mp42.
C18_FtypBrand ==
    ( /\ op = "detect_mime_type_magic"
      /\ Len(req.data) >= 12
      /\ SubSeq(req.data, 1, 4) = << "\\x00", "\\x00", "\\x00", " " >>
      /\ SubSeq(req.data, 5, 8) = Chars("ftyp") ) =>
        \A b \in BrandMime : SubSeq(req.data, 9, 12) = b[1] => ret.mime = Some(b[2])

\* C19: detect_mime_type_magic never reads a byte at an index at or beyond the length
\* of the content, whatever the content, and so never fails on a short content.
C19_ReadsWithinContent ==
    op = "detect_mime_type_magic" => ~ret.oob /\ ~ret.crash

\* ---------------------------------------------------- the percent-encoding

\* an is_safe for which '%' is safe too
is_safe_WithPercent(b) ==
    b \in (65..90) \cup (97..122) \cup (48..57) \cup {45, 95, 46, 126, 37}

\* matches!(b, b'A'..=b'Z' | b'a'..=b'z' | b'0'..=b'9' | b'-' | b'_' | b'.' | b'~')
is_safe(b) ==
    b \in (65..90) \cup (97..122) \cup (48..57) \cup {45, 95, 46, 126}

\* v @ 0..=9 => b'0' + v, v @ 10..=15 => b'A' + (v - 10)
hex_digit(v) == IF v <= 9 THEN 48 + v ELSE 65 + (v - 10)

\* the first loop of urlencode_iter_fn: the offset of the first byte that is not safe
RECURSIVE safe_run(_, _)
safe_run(bytes, i) ==
    IF i = Len(bytes) THEN i
    ELSE IF is_safe(bytes[i + 1]) THEN safe_run(bytes, i + 1)
    ELSE i

\* the second loop of urlencode_iter_fn, enc_i being Len(encoded)
RECURSIVE encode_loop(_, _, _)
encode_loop(bytes, i, encoded) ==
    LET b == bytes[i + 1]
        enc == encoded \o << 37, hex_digit((b \div 16) % 16), hex_digit(b % 16) >>
    IN  IF Len(enc) = 12 \/ i + 1 = Len(bytes) \/ is_safe(bytes[i + 2])
        THEN << enc, SliceFrom(bytes, i + 1) >>
        ELSE encode_loop(bytes, i + 1, enc)

\* urlencode_iter_fn: (encoded, remaining)
urlencode_iter_fn(input) ==
    IF input = << >> THEN << << >>, input >>
    ELSE LET i == safe_run(input, 0)
         IN  IF i = Len(input) THEN << input, << >> >>
             ELSE IF i # 0 THEN << SliceTo(input, i), SliceFrom(input, i) >>
             ELSE encode_loop(input, 0, << >>)

\* urlencode_into: the builder after the pushes
RECURSIVE urlencode_into(_, _)
urlencode_into(input, builder) ==
    IF input = << >> THEN builder
    ELSE LET r == urlencode_iter_fn(input)
         IN  urlencode_into(r[2], Append(builder, r[1]))

\* urlencode
urlencode(input) == urlencode_into(input, << >>)

\* a hex_val that takes 'G' for a digit
hex_val_WithG(c) ==
    IF c \in 48..57 THEN Some(c - 48)
    ELSE IF c \in 65..71 THEN Some(c - 65 + 10)
    ELSE IF c \in 97..102 THEN Some(c - 97 + 10)
    ELSE None

\* the value of a hex digit, None for another byte
hex_val(c) ==
    IF c \in 48..57 THEN Some(c - 48)
    ELSE IF c \in 65..70 THEN Some(c - 65 + 10)
    ELSE IF c \in 97..102 THEN Some(c - 97 + 10)
    ELSE None

\* the first loop of urldecode_iter_fn: the offset of the first '%'
RECURSIVE plain_run(_, _)
plain_run(bytes, i) ==
    IF i = Len(bytes) THEN i
    ELSE IF bytes[i + 1] # 37 THEN plain_run(bytes, i + 1)
    ELSE i

\* the second loop of urldecode_iter_fn, dec_i being Len(decoded)
RECURSIVE decode_loop(_, _, _)
decode_loop(bytes, i, decoded) ==
    IF i + 2 >= Len(bytes) THEN [i |-> i, decoded |-> decoded]
    ELSE LET hi_val == hex_val(bytes[i + 2])
             lo_val == hex_val(bytes[i + 3])
         IN  IF ~IsSome(hi_val) \/ ~IsSome(lo_val) THEN [i |-> i, decoded |-> decoded]
             ELSE LET dec == Append(decoded, Unwrap(hi_val) * 16 + Unwrap(lo_val))
                  IN  IF i + 3 + 2 > Len(bytes) \/ bytes[i + 4] # 37 \/ Len(dec) = 14
                      THEN [i |-> i + 3, decoded |-> dec]
                      ELSE decode_loop(bytes, i + 3, dec)

\* urldecode_iter_fn: (decoded, remaining)
urldecode_iter_fn(input) ==
    IF input = << >> THEN << << >>, input >>
    ELSE LET i == plain_run(input, 0)
         IN  IF i = Len(input) THEN << input, << >> >>
             ELSE IF i # 0 THEN << SliceTo(input, i), SliceFrom(input, i) >>
             ELSE LET r == decode_loop(input, 0, << >>)
                  IN  IF r.i = 0 THEN << << >>, input >>
                      ELSE << r.decoded, SliceFrom(input, r.i) >>

\* urldecode_into: Ok(()) or Err(remaining), and the builder after the pushes
RECURSIVE urldecode_into(_, _)
urldecode_into(input, builder) ==
    IF input = << >> THEN [ok |-> TRUE, builder |-> builder, e |-> << >>]
    ELSE LET step(r) ==
                 IF r[1] = << >> THEN [ok |-> FALSE, builder |-> builder, e |-> r[2]]
                 ELSE urldecode_into(r[2], Append(builder, r[1]))
         IN  step(urldecode_iter_fn(input))

\* urldecode_queue_into: Ok(()) or Err(input) with the failed rest pushed to its front
RECURSIVE urldecode_queue_into(_, _)
urldecode_queue_into(input, builder) ==
    IF input = << >> THEN [ok |-> TRUE, builder |-> builder, e |-> << >>]
    ELSE LET step(r) ==
                 IF ~r.ok
                 THEN [ok |-> FALSE, builder |-> r.builder, e |-> << r.e >> \o Tail(input)]
                 ELSE urldecode_queue_into(Tail(input), r.builder)
         IN  step(urldecode_into(Head(input), builder))

\* urldecode_queue: Ok(builder) or Err((builder, e))
urldecode_queue(input) ==
    LET result(r) == IF r.ok THEN Ok(r.builder) ELSE Err(<< r.builder, r.e >>)
    IN  result(urldecode_queue_into(input, << >>))

\* urldecode: Ok(builder) or Err((builder, e))
urldecode(input) ==
    LET result(r) == IF r.ok THEN Ok(r.builder) ELSE Err(<< r.builder, r.e >>)
    IN  result(urldecode_into(input, << >>))

\* the loops that drain the '&' at the front of the input
RECURSIVE skip_amp(_)
skip_amp(input) ==
    IF input # << >> /\ input[1] = 38 THEN skip_amp(Tail(input)) ELSE input

\* the offset of the first byte of input that is in stops, Len(input) if none
find_or_len(input, stops) ==
    IF \E k \in 1..Len(input) : input[k] \in stops
    THEN (CHOOSE k \in 1..Len(input) :
             input[k] \in stops /\ \A j \in 1..(k - 1) : input[j] \notin stops) - 1
    ELSE Len(input)

\* urldecode_queue(text.into_bytequeue()).ok() and ByteData::from of the queue; the
\* text is one chunk, an empty text an empty queue
decode_text(text) ==
    LET ok(r) == IF r.ok THEN Some(ConcatWith(r.v, << >>)) ELSE None
    IN  ok(urldecode_queue(IF text = << >> THEN << >> ELSE << text >>))

\* parse_query_string_iter_fn: the item returned, and the input left behind
parse_query_string_iter_fn(input) ==
    LET in0 == skip_amp(input)
    IN  IF in0 = << >> THEN [item |-> None, input |-> in0]
        ELSE LET end_start == find_or_len(in0, {38, 61})
                 key == SliceTo(in0, end_start)
                 in1 == SliceFrom(in0, end_start)
                 has_val == in1 # << >> /\ in1[1] = 61
                 in2 == IF has_val THEN Tail(in1) ELSE in1
                 val_end == find_or_len(in2, {38})
                 value == decode_text(SliceTo(in2, val_end))
                 in3 == IF has_val THEN SliceFrom(in2, val_end) ELSE in1
                 item(v, k, in4) ==
                     IF has_val /\ ~IsSome(v) THEN [item |-> None, input |-> in3]
                     ELSE IF ~IsSome(k) THEN [item |-> None, input |-> in4]
                     ELSE [item |-> Some(<< Unwrap(k), IF has_val THEN v ELSE None >>),
                           input |-> in4]
             IN  item(value, decode_text(key), skip_amp(in3))

\* QueryStringIterator::next: the item returned, and self.input after the call
RECURSIVE next(_)
next(input) ==
    IF input = << >> THEN [item |-> None, input |-> input]
    ELSE LET loop(r) == IF IsSome(r.item) THEN r ELSE next(r.input)
         IN  loop(parse_query_string_iter_fn(input))

\* the spans given to urlencode: up to MaxSpanLen bytes out of NUL, '%', 'A', '~'
\* and 0xFF
MaxSpanLen == 5
SpanBytes == {0, 37, 65, 126, 255}
Spans == Strs(SpanBytes, MaxSpanLen)

\* urlencode(input)
Urlencode ==
    /\ op = "idle"
    /\ \E input \in Spans :
        /\ op' = "urlencode"
        /\ req' = [input |-> input]
        /\ ret' = urlencode(input)
        /\ UNCHANGED self

\* the texts given to urldecode: up to MaxEncodedLen bytes out of '%', the digit '4',
\* the lower-case digit 'a' and 'G', which is no hex digit; and three texts of 15
\* triplets, one more than the buffer of decoded bytes holds, the last of them whole,
\* cut short and spoilt
MaxEncodedLen == 6
EncodedBytes == {37, 52, 97, 71}
FifteenTriplets == [k \in 1..45 |-> << 37, 52, 97 >>[((k - 1) % 3) + 1]]
EncodedTexts ==
    Strs(EncodedBytes, MaxEncodedLen)
    \cup { FifteenTriplets, SubSeq(FifteenTriplets, 1, 44),
           SubSeq(FifteenTriplets, 1, 43) \o << 71, 97 >> }

\* urldecode(input)
Urldecode ==
    /\ op = "idle"
    /\ \E input \in EncodedTexts :
        /\ op' = "urldecode"
        /\ req' = [input |-> input]
        /\ ret' = urldecode(input)
        /\ UNCHANGED self

\* the query strings given to QueryStringIterator: up to MaxQueryTextLen bytes out of
\* '&', '=', '%', the digit '4' and 'G', which is no hex digit
MaxQueryTextLen == 5
QueryBytes == {38, 61, 37, 52, 71}
QueryTexts == Strs(QueryBytes, MaxQueryTextLen)

\* QueryStringIterator::new(input); ret holds the iterator and what it has yielded
QueryStringIteratorNew ==
    /\ op = "idle"
    /\ \E input \in QueryTexts :
        /\ op' = "QueryStringIterator"
        /\ req' = [query |-> input]
        /\ ret' = [input |-> input, yielded |-> << >>, done |-> FALSE]
        /\ UNCHANGED self

\* QueryStringIterator::next on an iterator that has not returned None yet
QueryStringIteratorNext ==
    /\ op = "QueryStringIterator"
    /\ ~ret.done
    /\ \E r \in { next(ret.input) } :
          ret' = [input |-> r.input,
                  yielded |-> IF IsSome(r.item) THEN Append(ret.yielded, Unwrap(r.item))
                              ELSE ret.yielded,
                  done |-> ~IsSome(r.item)]
    /\ UNCHANGED << self, op, req >>

\* urldecode_queue(input) on the queue urlencode made of a span
UrldecodeQueue ==
    /\ op = "idle"
    /\ \E span \in Spans :
        /\ op' = "urldecode_queue"
        /\ req' = [input |-> urlencode(span)]
        /\ ret' = urldecode_queue(urlencode(span))
        /\ UNCHANGED self

NextUrl ==
    \/ Urlencode \/ UrldecodeQueue \/ Urldecode
    \/ QueryStringIteratorNew \/ QueryStringIteratorNext
    \/ Return

SpecUrl == InitFree /\ [][NextUrl]_vars

\* the bytes A-Z a-z 0-9 - _ . ~
SafeBytes == (65..90) \cup (97..122) \cup (48..57) \cup {45, 95, 46, 126}

\* the text is made of safe bytes and of triplets of '%' and two hex digits
OnlySafeAndTriplets(t) ==
    \A k \in 1..Len(t) :
        \/ t[k] \in SafeBytes
        \/ /\ t[k] = 37
           /\ k + 2 <= Len(t)
           /\ t[k + 1] \in (48..57) \cup (65..70) \cup (97..102)
           /\ t[k + 2] \in (48..57) \cup (65..70) \cup (97..102)

\* C20: for every span b, urlencode(b) consists only of safe bytes and %XX triplets,
\* and urldecode_queue of it succeeds with chunks whose concatenation is b.
C20_RoundTrip ==
    op = "urlencode" =>
        /\ OnlySafeAndTriplets(ConcatWith(ret, << >>))
        /\ urldecode_queue(ret).ok
        /\ ConcatWith(urldecode_queue(ret).v, << >>) = req.input

\* five bytes 0xFF: a chunk of four triplets, which fills the buffer of 12 bytes, and
\* a chunk of one triplet; each chunk decodes on its own
C20_Witness ==
    /\ op = "urlencode"
    /\ req.input = << 255, 255, 255, 255, 255 >>
    /\ ret = << << 37, 70, 70, 37, 70, 70, 37, 70, 70, 37, 70, 70 >>, << 37, 70, 70 >> >>
    /\ urldecode_queue(ret) = Ok(<< << 255, 255, 255, 255 >>, << 255 >> >>)

\* the hex digits 0-9 A-F a-f
HexDigits == (48..57) \cup (65..70) \cup (97..102)

\* the '%' at the place k of the text t is not followed by two hex digits
BadPercent(t, k) ==
    /\ t[k] = 37
    /\ ~(k + 2 <= Len(t) /\ t[k + 1] \in HexDigits /\ t[k + 2] \in HexDigits)

\* the place of the first '%' of t that is not followed by two hex digits, 0 if none
FirstBadPercent(t) ==
    IF \E k \in 1..Len(t) : BadPercent(t, k)
    THEN CHOOSE k \in 1..Len(t) : BadPercent(t, k) /\ \A j \in 1..(k - 1) : ~BadPercent(t, j)
    ELSE 0

\* the number a hex digit stands for
Nibble(c) == IF c <= 57 THEN c - 48 ELSE IF c <= 70 THEN c - 55 ELSE c - 87

\* the decoding of a text without a bad '%': each triplet gives its byte, each other
\* byte itself
RECURSIVE Decoding(_)
Decoding(t) ==
    IF t = << >> THEN << >>
    ELSE IF t[1] = 37
    THEN << Nibble(t[2]) * 16 + Nibble(t[3]) >> \o Decoding(SubSeq(t, 4, Len(t)))
    ELSE << t[1] >> \o Decoding(Tail(t))

\* C21: urldecode on an input with a '%' that is not followed by two hex digits returns
\* an error whose remainder is the input from the first such '%' to the end and whose
\* decoded part is the decoding of the input before that '%'; an input without such a
\* '%' returns no error.
C21_DecodeError ==
    op = "urldecode" =>
        LET bad == FirstBadPercent(req.input)
        IN  IF bad = 0
            THEN ret.ok
            ELSE /\ ~ret.ok
                 /\ ret.v[2] = SubSeq(req.input, bad, Len(req.input))
                 /\ ConcatWith(ret.v[1], << >>) = Decoding(SubSeq(req.input, 1, bad - 1))

\* `G%4a%G`: the decoded part is `G` and `J`, the remainder `%G`
C21_Witness ==
    /\ op = "urldecode"
    /\ req.input = << 71, 37, 52, 97, 37, 71 >>
    /\ ret = Err(<< << << 71 >>, << 74 >> >>, << 37, 71 >> >>)

\* the non-empty '&'-separated fields of a query string, in order
NonEmptyFields(q) == SelectSeq(Split(q, 38), LAMBDA f : f # << >>)

\* the text of a field before its first '=', the whole field when it has none
KeyText(f) == SplitN2(f, 61).first

\* neither side of the field has a '%' that is not followed by two hex digits
WellFormed(f) ==
    /\ FirstBadPercent(KeyText(f)) = 0
    /\ IsSome(SplitN2(f, 61).second) => FirstBadPercent(Unwrap(SplitN2(f, 61).second)) = 0

\* the pair of a well-formed field: the decoded key, and the decoded value or None
PairOf(f) ==
    << Decoding(KeyText(f)),
       IF IsSome(SplitN2(f, 61).second)
       THEN Some(Decoding(Unwrap(SplitN2(f, 61).second)))
       ELSE None >>

\* C22: a QueryStringIterator run to its end has yielded, in order, one pair
\* for each non-empty field of the query string: the decoded key, and the decoded
\* value or None when the field has no '='.
C22_OnePairPerField ==
    (op = "QueryStringIterator" /\ ret.done) =>
        LET fields == NonEmptyFields(req.query)
        IN  /\ Len(ret.yielded) = Len(fields)
            /\ \A i \in 1..Len(fields) :
                  WellFormed(fields[i]) => ret.yielded[i] = PairOf(fields[i])

\* ceil(4 * len / 3)
CeilFourThirds(len) == (4 * len + 2) \div 3

\* 4 for each full group of three bytes, 2 for one byte left, 3 for two bytes left
WrittenCount(len) ==
    4 * (len \div 3) + (IF len % 3 = 1 THEN 2 ELSE IF len % 3 = 2 THEN 3 ELSE 0)

\* C23: b64url_const panics exactly when offset >= S or the room S - offset is smaller
\* than ceil(4 * len / 3); every other call completes, and the buffer it returns
\* differs from the one it was given only at indices offset .. S - 1.
C23_PanicsExactlyWithoutRoom ==
    op = "b64url_const" =>
        LET S == Len(req.trg)
        IN  /\ ret.panic <=>
                  (req.offset >= S \/ S - req.offset < CeilFourThirds(Len(req.data)))
            /\ ~ret.panic =>
                  /\ Len(ret.trg) = S
                  /\ \A k \in 1..req.offset : ret.trg[k] = req.trg[k]

\* two bytes into a room of two: the size test lets the call through, the third
\* character has no place and the call panics
C23_Witness ==
    /\ op = "b64url_const"
    /\ Len(req.data) = 2
    /\ Len(req.trg) = 3
    /\ req.offset = 1
    /\ ret.panic

\* C24: the number b64url_const returns is the number of bytes it wrote: 4
\* for each full group, 2 or 3 for a remainder of 1 or 2 bytes, and no '=' is written.
C24_ReturnsCount ==
    (op = "b64url_const" /\ ~ret.panic) =>
        /\ ret.n = WrittenCount(Len(req.data))
        /\ \A k \in 1..Len(ret.trg) : ret.trg[k] # "="

\* C25: a scanning rule with bound B matches exactly when its pattern occurs in the
\* content at some offset p with 0 <= p < B and p + pattern length <= content length,
\* an occurrence that ends exactly at the end of the content included; stated of the
\* six scanning rules of the XML table and the content of a call.
C25_ScanFindsOccurrence ==
    op = "detect_mime_type_magic" =>
        \A i \in 1..Len(XML) :
            (matches_before(req.data, XML[i][1].n, XML[i][2]) = "true")
                <=> OccursBefore(req.data, XML[i][2], XML[i][1].n)

\* C26: a QueryCacheBustedHttpFile answers a request as the negotiator answers it for
\* a file whose cache_busting() is the Query(key) the wrapper reports: 307 for a GET
\* whose URL lacks key=<fingerprint>, and the immutable Cache-Control on 200 and 304.
C26_RespondsUnderOwnMode ==
    op = "wrap_resp_respond" =>
        ret = respond([req.wrapper.inner EXCEPT
                          !.cache_busting = cache_busting(req.wrapper)],
                      req.request)

\* fingerprints out of base64url characters, with '-' and '_' at either end
Base64UrlFingerprints ==
    { << "a" >>, << "-", "a" >>, << "a", "-" >>, << "_", "a" >>, << "a", "-", "a" >> }

\* the file entity self with another fingerprint
WithFingerprint(e) == [self EXCEPT !.etag = << Q >> \o e \o << Q >>]

\* the check of the file's mode redirects the URI, and accepts the Location it gives
RedirectAccepted(file, uri) ==
    LET r == BustingCheck(file, uri)
    IN  IsSome(r) =>
            BustingCheck(file, ParseUri(Unwrap(Unwrap(r).headers.location))) = None

\* C27: redirects converge in one step. The Location of a 307, in Query mode and in
\* Suffix mode with or without a separator, is accepted by the same check without a
\* further redirect, for every fingerprint out of base64url characters; the request
\* repeated at the Location is answered 200, 204 or 304.
C27_RedirectsConverge ==
    /\ op \in {"respond", "respond_borrowed", "cachebust_uri", "cachebust_suffix"} =>
          \A e \in Base64UrlFingerprints : RedirectAccepted(WithFingerprint(e), req.uri)
    /\ (Answered /\ ret.status = TEMPORARY_REDIRECT) =>
          respond(self, [req EXCEPT !.uri = ParseUri(Unwrap(ret.headers.location))]).status
              \in {OK, NO_CONTENT, NOT_MODIFIED}

\* a GET of /f?v=f&a from a Query(v) file is sent to /f?v=a&a, which is answered 200
C27_Witness ==
    /\ op = "respond"
    /\ self.cache_busting.kind = "Query"
    /\ req.method = "GET"
    /\ req.uri = [path |-> << "/", "f" >>, query |-> Some(<< "v", "=", "f", "&", "a" >>)]
    /\ ret.status = TEMPORARY_REDIRECT
    /\ respond(self, [req EXCEPT !.uri = ParseUri(Unwrap(ret.headers.location))]).status = OK

\* C28: const_etag_str of a ConstHttpFile and of a SharedHttpFile returns, without a
\* panic, what HttpFile::etag_str returns for the same etag, whatever the etag: empty,
\* the two quotes alone, a lone quote, or a leading quote without a trailing one.
C28_ConstEtagStrAgrees ==
    op \in {"ConstHttpFile::const_etag_str", "SharedHttpFile::const_etag_str"} =>
        ret = etag_str(req.etag)

\* the queries a request for the same path may carry instead: none, an empty one, the
\* parameter of the Query mode, and fields that hold the fingerprint or an extension
OtherQueries ==
    { None, Some(<< >>), Some(<< "v", "=", "a" >>), Some(<< "a" >>),
      Some(<< "f", ".", "a" >>), Some(<< "-", "a" >>), Some(<< "a", "&", "v", "=", "f" >>) }

\* C29: in Suffix mode the Location of a redirect is built from the path of the
\* request alone and holds no query component, whatever query the request carried;
\* and whether a URL is accepted depends on its path only, never on its query.
C29_SuffixIgnoresQuery ==
    ( /\ op \in {"respond", "respond_borrowed", "cachebust_suffix"}
      /\ self.cache_busting.kind = "Suffix" ) =>
        LET r == cachebust_suffix(self, req.uri, self.cache_busting.sep)
        IN  /\ \A q \in OtherQueries :
                  cachebust_suffix(self, [req.uri EXCEPT !.query = q],
                                   self.cache_busting.sep) = r
            /\ IsSome(r) => Find(Unwrap(Unwrap(r).headers.location), "?") = None
            /\ op = "cachebust_suffix" => ret = r
            /\ (Answered /\ MethodAllowed(req.method)) =>
                  /\ (ret.status = TEMPORARY_REDIRECT) = IsSome(r)
                  /\ IsSome(r) => ret = Unwrap(r)

\* a GET of /f?v=a from a Suffix('-') file is sent to /f-a, without the query
C29_Witness ==
    /\ op = "respond"
    /\ self.cache_busting = CacheBustingSuffix(Some("-"))
    /\ req.method = "GET"
    /\ req.uri = [path |-> << "/", "f" >>, query |-> Some(<< "v", "=", "a" >>)]
    /\ ret.status = TEMPORARY_REDIRECT
    /\ ret.headers.location = Some(<< "/", "f", "-", "a" >>)

\* the bit i of the hash, bit 0 being the highest bit of the first byte
HashBit(h, i) == (h[(i \div 8) + 1] \div (2 ^ (7 - (i % 8)))) % 2

\* the sextet k of the hash, k = 0 for its highest six bits
HashSextet(h, k) ==
    32 * HashBit(h, 6 * k) + 16 * HashBit(h, 6 * k + 1) + 8 * HashBit(h, 6 * k + 2)
        + 4 * HashBit(h, 6 * k + 3) + 2 * HashBit(h, 6 * k + 4) + HashBit(h, 6 * k + 5)

\* the two hashes have the same upper 60 bits
SameUpper60(h1, h2) == \A i \in 0..59 : HashBit(h1, i) = HashBit(h2, i)

\* bytes a byte of the hash is replaced with
OtherBytes == HashBytes \cup {1, 16, 90}

\* C30: the 8 bytes of the hash encode to 11 base64url characters at the indices 1..11
\* of the buffer and the closing quote overwrites index 11, so the token is made of the
\* ten sextets of the upper 60 bits of the hash: a hash that differs only in the low 4
\* bits of its last byte gives the same token, and a hash that differs in the upper 60
\* bits gives another token.
C30_TokenOfUpper60Bits ==
    op \in {"compute_etag", "compute_etag_nonconst"} =>
        LET h == req.hash
            r == b64url_const(h, ZeroedEtag, 1)
        IN  /\ ~r.panic /\ r.n = 12
            /\ \A k \in 2..12 : r.trg[k] \in Base64UrlAlphabet
            /\ ret[12] = Q
            /\ Cardinality({ BASE64URL[i] : i \in 1..64 }) = 64
            /\ \A k \in 0..9 : ret[k + 2] = BASE64URL[HashSextet(h, k) + 1]
            /\ \A low \in 0..15 :
                  compute_etag([h EXCEPT ![8] = 16 * (h[8] \div 16) + low]) = ret
            /\ \A k \in 1..8, b \in OtherBytes :
                  (compute_etag([h EXCEPT ![k] = b]) = ret)
                      <=> SameUpper60([h EXCEPT ![k] = b], h)

\* the hash 00 .. 00 a5: the 11th character `U` (the sextet 010100 of the low nibble 5)
\* is overwritten, and the token `"AAAAAAAAAK"` is that of the hash 00 .. 00 a0
C30_Witness ==
    /\ op = "compute_etag"
    /\ req.hash = [k \in 1..8 |-> IF k = 8 THEN 165 ELSE 0]
    /\ b64url_const(req.hash, ZeroedEtag, 1).trg[12] = "U"
    /\ ret = << Q >> \o [k \in 1..9 |-> "A"] \o << "K", Q >>
    /\ ret = compute_etag([k \in 1..8 |-> IF k = 8 THEN 160 ELSE 0])

====
